---- MODULE Spec2Model ----
(***************************************************************************)
(* The mission simulation and broadcast engine of the drone fleet server:  *)
(* registerRoutes (the route file that carries startDroneSimulation, the   *)
(* WebSocket message handler and the REST handlers) over MemStorage.       *)
(*                                                                         *)
(* Every `await` of a WebSocket handler or of the interval callback is a   *)
(* point where the handler is suspended; the code between two awaits is    *)
(* one step.  A storage call's body runs when it is called (MemStorage's   *)
(* methods have no await of their own), so a step ends with the storage    *)
(* call it makes and the next step starts with that call's result.         *)
(*                                                                         *)
(* Coordinates are integers (multiples of 20 on the paths used), progress  *)
(* is counted in hundredths: `progress += 0.05` is +5 and `progress >= 1`  *)
(* is >= 100.  In IEEE doubles the 20th addition of 0.05 gives             *)
(* 1.0000000000000002 >= 1 and the 19th gives 0.9500000000000003 < 1, so   *)
(* the code rolls a segment over on the same tick as this model.           *)
(***************************************************************************)
EXTENDS Integers, Sequences, FiniteSets, TLC

\* ------------------------------------------------------------ bounds
MaxSimulations == 2     \* registry entries (and interval timers) ever created
MaxInFlight == 2        \* suspended handlers at one time (SpecAsync)
MaxAssignments == 1     \* drone assignments created per mission
MaxLag == 2             \* interval periods a storage call may take (SpecAsync)
MaxSockets == 3         \* WebSockets a browser creates (SpecClient)

\* ------------------------------------------------------------ program constants
ProgressStep == 5       \* progress += 0.05
ProgressFull == 100     \* progress >= 1

\* ------------------------------------------------------------ universe
DroneIds == {1, 2}              \* drones in storage
MissionIds == {1, 2}            \* mission 1 is stored at start, mission 2 is created by POST /api/missions
RequestDroneIds == DroneIds \cup {3}    \* a message may name a drone storage has no record of
None == 0                       \* undefined / null

Waypoint(lat, lng) == [lat |-> lat, lng |-> lng, altitude |-> 50]
Location(lat, lng) == [lat |-> lat, lng |-> lng]

OnePoint == <<Waypoint(0, 0)>>
ShortPath == <<Waypoint(0, 0), Waypoint(0, 20)>>
LongPath == <<Waypoint(0, 0), Waypoint(0, 20), Waypoint(40, 20)>>     \* two segments of unequal length
DetourPath == <<Waypoint(20, 0), Waypoint(20, 20)>>

\* The coordinates of the model are naturals; these two stand for what JavaScript reads
\* from a missing property and for what arithmetic on it yields.
Undefined == -1
NaN == -2
IsNumber(x) == x >= 0

\* A waypoint list whose second waypoint has no lat.
MalformedPath == <<Waypoint(0, 0), Waypoint(Undefined, 20)>>

\* The waypoint lists of the stored assignment of mission 1.
StoredWaypoints == {<<>>, OnePoint, ShortPath, LongPath}

\* The waypoint list the planner submits with a new assignment of mission m.
WaypointInputs(m) == IF m = 1 THEN {ShortPath} ELSE {OnePoint}

\* Locations an operator sends in a manual drone-location-update.
ManualLocations == {Location(40, 40)}

\* The status a PATCH /api/missions/:id sets.
PatchStatuses == {"in-progress"}

NoDrone == [status |-> "none"]
NoMission == [status |-> "none"]
NoSim == [intervalId |-> -1]

VARIABLES
    drones,                     \* MemStorage.drones: id -> record
    missions,                   \* MemStorage.missions: id -> record
    droneAssignments,           \* MemStorage.droneAssignments, per mission in insertion order
    activeMissionSimulations,   \* the registry: missionId -> entry
    timers,                     \* the intervals setInterval has scheduled and clearInterval has not cancelled
    nextTimerId,                \* the next Timeout handle setInterval returns
    tasks,                      \* the handlers suspended at an await, each with its locals
    currentMissionId,           \* MemStorage.currentMissionId
    published,                  \* the events the last step sent to wss.clients
    step,                       \* the handler step taken last
    clients,                    \* wss.clients: per connection its readyState and what it has been sent
    sent,                       \* the messages the last step sent on each connection
    browser                     \* a browser: the WebSockets it created and its pending reconnect timeouts

storeVars == <<drones, missions, droneAssignments, currentMissionId>>
simVars == <<activeMissionSimulations, timers, nextTimerId>>
progVars == <<drones, missions, droneAssignments, currentMissionId, activeMissionSimulations, timers,
              nextTimerId, tasks>>
vars == <<drones, missions, droneAssignments, activeMissionSimulations, timers, nextTimerId,
          tasks, currentMissionId, published, step, clients, sent, browser>>


\* ------------------------------------------------------------ helpers
Range(s) == {s[i] : i \in DOMAIN s}

CanDispatch(limit) == Cardinality(tasks) < limit

Idle == tasks = {}

Did(op, m, d, n) == [op |-> op, missionId |-> m, droneId |-> d, n |-> n]

\* (faulty variant) an update that stores the fields given when the drone is missing
updateDroneUpsert(store, id, update) ==
    IF id \in DOMAIN store
    THEN [store EXCEPT ![id] = IF store[id] = NoDrone THEN update
                               ELSE [f \in DOMAIN store[id] |->
                                        IF f \in DOMAIN update THEN update[f] ELSE store[id][f]]]
    ELSE store

\* (faulty variant) an update applied to every stored drone
updateEveryDrone(store, id, update) ==
    [e \in DOMAIN store |->
        IF store[e] = NoDrone THEN store[e]
        ELSE [f \in DOMAIN store[e] |-> IF f \in DOMAIN update THEN update[f] ELSE store[e][f]]]

\* (faulty variant) an update that also makes the drone available
updateDroneAvailable(store, id, update) ==
    IF id \in DOMAIN store /\ store[id] # NoDrone
    THEN [store EXCEPT ![id] = [f \in DOMAIN store[id] |->
                                   IF f \in DOMAIN update THEN update[f]
                                   ELSE IF f = "status" THEN "available" ELSE store[id][f]]]
    ELSE store

\* MemStorage.updateDrone: { ...drone, ...update } when the drone exists.
updateDrone(store, id, update) ==
    IF id \in DOMAIN store /\ store[id] # NoDrone
    THEN [store EXCEPT ![id] = [f \in DOMAIN store[id] |->
                                   IF f \in DOMAIN update THEN update[f] ELSE store[id][f]]]
    ELSE store

\* MemStorage.getDrone
getDrone(store, id) == IF id \in DOMAIN store THEN store[id] ELSE NoDrone

\* MemStorage.updateMission
updateMission(store, id, update) ==
    IF id \in DOMAIN store /\ store[id] # NoMission
    THEN [store EXCEPT ![id] = [f \in DOMAIN store[id] |->
                                   IF f \in DOMAIN update THEN update[f] ELSE store[id][f]]]
    ELSE store

\* MemStorage.getMission (the stored record; waypoints are read from the assignments)
getMission(store, id) == IF id \in DOMAIN store THEN store[id] ELSE NoMission

\* MemStorage.getDroneAssignmentsByMission
getDroneAssignmentsByMission(id) == IF id \in DOMAIN droneAssignments THEN droneAssignments[id] ELSE <<>>

\* MemStorage.getMission assigns mission.waypoints on the stored object: the first
\* assignment's waypoints, or [] when there is none. A mission record of the model carries
\* a waypoints field only where a list of its own was stored (PUT /api/missions/:id);
\* elsewhere the field is left out, being what the assignments give.
AttachWaypoints(store, id) ==
    IF id \in DOMAIN store /\ store[id] # NoMission /\ "waypoints" \in DOMAIN store[id]
    THEN [store EXCEPT ![id].waypoints =
             IF Len(getDroneAssignmentsByMission(id)) > 0
             THEN getDroneAssignmentsByMission(id)[1].waypoints ELSE <<>>]
    ELSE store

\* (faulty variant) a broadcast that sends nothing
broadcastNothing(id, drone) == <<>>

\* broadcastDroneUpdate: one drone-location-update carrying the record.
broadcastDroneUpdate(id, drone) ==
    IF drone = NoDrone THEN <<>> ELSE <<[type |-> "drone-location-update", id |-> id, drone |-> drone]>>

\* ------------------------------------------------------------ faulty variants
\* Plausible slips of the engine's decisions; each property below is also checked against
\* the engine with one of these in place of the decision it imitates, and must then fail.

\* from + (to - from) * progress with progress taken as a whole number
InterpolateUnscaled(from, to, progress) ==
    Location(from.lat + (to.lat - from.lat) * progress,
             from.lng + (to.lng - from.lng) * progress)

\* if (mission)
FoundMission(mission, drone) == mission # NoMission

\* if (!waypoints || waypoints.length < 1) return
AcceptsOneWaypoint(waypoints) == Len(waypoints) < 1

\* set(...) when the entry is missing, else replace the drone list
ReplaceEntry(old, d, path) ==
    IF old = NoSim
    THEN [activeDrones |-> <<d>>, currentWaypointIndex |-> 0, path |-> path, intervalId |-> None]
    ELSE [old EXCEPT !.activeDrones = <<d>>]

\* a merge that also takes the request's path and starts it over
MergeTakesPath(old, d, path) ==
    IF old = NoSim
    THEN [activeDrones |-> <<d>>, currentWaypointIndex |-> 0, path |-> path, intervalId |-> None]
    ELSE [old EXCEPT !.activeDrones = IF d \in Range(@) THEN @ ELSE Append(@, d),
                     !.path = path, !.currentWaypointIndex = 0]

\* setInterval without looking at sim.intervalId
AlwaysNeedsInterval(sim) == TRUE

\* if (progress > 1)
RolledLate(t) == t.progress + ProgressStep > ProgressFull

\* no setInterval at all
NeverNeedsInterval(sim) == FALSE

\* the roll-over tested before the increment
RolledOnFull(t) == t.progress >= ProgressFull

\* every tick writes the location only
TickWriteLocationOnly(final, newLocation) == [lastKnownLocation |-> newLocation]

\* every tick writes what the completing tick writes
TickWriteReleases(final, newLocation) ==
    [lastKnownLocation |-> newLocation, status |-> "available", assignedMissionId |-> None]

\* waypoints.map(wp => ({ lat: wp.lat, lng: wp.lng }))
ToPath(waypoints) == [i \in DOMAIN waypoints |-> Location(waypoints[i].lat, waypoints[i].lng)]

\* from + (to - from) * progress on one coordinate, progress in hundredths; NaN when an
\* operand is not a number
Along(from, to, progress) ==
    IF IsNumber(from) /\ IsNumber(to) THEN from + ((to - from) * progress) \div ProgressFull ELSE NaN

\* the position between two waypoints
Interpolate(from, to, progress) ==
    Location(Along(from.lat, to.lat, progress), Along(from.lng, to.lng, progress))

\* ------------------------------------------------------------ subscribers
ClientIds == {1, 2}             \* the connections the WebSocketServer can hold

NoLocation == [seen |-> FALSE]  \* no drone-location-update received for the drone yet

\* A connection that is not in wss.clients.
NoClient == [readyState |-> "absent", handshakes |-> 0, seen |-> [d \in DroneIds |-> NoLocation]]

\* (faulty variant) a connection handler that sends nothing
NoHandshake == <<>>

\* ws.send(JSON.stringify({ type: 'connected', message: ... }))
ConnectedHandshake == <<[type |-> "connected"]>>

\* (faulty variant) send to every socket of wss.clients whatever its readyState
DeliverToAll(cl, events) ==
    [c \in ClientIds |-> IF cl[c].readyState # "absent" THEN events ELSE <<>>]

\* (faulty variant) stop at the first OPEN socket
DeliverToFirst(cl, events) ==
    [c \in ClientIds |->
        IF cl[c].readyState = "OPEN" /\ \A b \in ClientIds : cl[b].readyState = "OPEN" => c <= b
        THEN events ELSE <<>>]

\* wss.clients.forEach(client => { if (client.readyState === WebSocket.OPEN) client.send(event) })
Deliver(cl, events) ==
    [c \in ClientIds |-> IF cl[c].readyState = "OPEN" THEN events ELSE <<>>]

\* The drone-location-update messages for drone d among `messages`.
UpdatesFor(messages, d) ==
    {i \in DOMAIN messages : messages[i].type = "drone-location-update" /\ messages[i].id = d}

\* A connection after `messages` were sent on it: the handshakes counted, and per drone
\* the location of the last drone-location-update.
Receive(client, messages) ==
    [client EXCEPT
        !.handshakes = @ + Cardinality({i \in DOMAIN messages : messages[i].type = "connected"}),
        !.seen = [d \in DroneIds |->
                     IF UpdatesFor(messages, d) = {} THEN @[d]
                     ELSE LET last == CHOOSE i \in UpdatesFor(messages, d) :
                                          \A j \in UpdatesFor(messages, d) : j <= i
                          IN messages[last].drone.lastKnownLocation]]

\* A handler step that broadcasts `events` (none for most steps).
Publish(events) ==
    /\ published' = events
    /\ sent' = Deliver(clients, events)
    /\ clients' = [c \in ClientIds |-> Receive(clients[c], Deliver(clients, events)[c])]
    /\ UNCHANGED browser

\* ------------------------------------------------------------ the browser
\* A browser that has not called createWebSocketConnection yet.
NoBrowser == [sockets |-> <<>>, timeouts |-> <<>>]

\* ------------------------------------------------------------ initial states
\* MemStorage's constructor loads the data file the last run saved; the registry and the
\* timers are in memory only and start empty.

\* The fleet as POST /api/drones, POST /api/missions and one POST .../assignments left it:
\* mission 1 is planned and drone 1 is assigned to it with the waypoints the planner drew.
Init ==
    /\ drones = [d \in DroneIds |->
                    IF d = 1
                    THEN [status |-> "in-mission", assignedMissionId |-> 1, lastKnownLocation |-> Location(0, 0)]
                    ELSE [status |-> "available", assignedMissionId |-> None, lastKnownLocation |-> Location(0, 0)]]
    /\ missions = [m \in MissionIds |-> IF m = 1 THEN [status |-> "planned"] ELSE NoMission]
    /\ \E waypoints \in StoredWaypoints :
           droneAssignments = [m \in MissionIds |->
                                  IF m = 1 THEN <<[droneId |-> 1, waypoints |-> waypoints]>> ELSE <<>>]
    /\ currentMissionId = 2
    /\ activeMissionSimulations = [m \in MissionIds |-> NoSim]
    /\ timers = {}
    /\ nextTimerId = 1
    /\ tasks = {}
    /\ published = <<>>
    /\ clients = [c \in ClientIds |-> NoClient]
    /\ sent = [c \in ClientIds |-> <<>>]
    /\ step = Did("init", None, None, 0)
    /\ browser = NoBrowser

\* A file with one drone and one planned mission, no assignment made yet.
InitRest ==
    /\ drones = [d \in DroneIds |->
                    IF d = 1
                    THEN [status |-> "available", assignedMissionId |-> None, lastKnownLocation |-> Location(0, 0)]
                    ELSE NoDrone]
    /\ missions = [m \in MissionIds |-> IF m = 1 THEN [status |-> "planned"] ELSE NoMission]
    /\ droneAssignments = [m \in MissionIds |-> <<>>]
    /\ currentMissionId = 2
    /\ activeMissionSimulations = [m \in MissionIds |-> NoSim]
    /\ timers = {}
    /\ nextTimerId = 1
    /\ tasks = {}
    /\ published = <<>>
    /\ clients = [c \in ClientIds |-> NoClient]
    /\ sent = [c \in ClientIds |-> <<>>]
    /\ step = Did("init", None, None, 0)
    /\ browser = NoBrowser

\* ------------------------------------------------------------ suspended handlers
BlankTask ==
    [kind |-> "none", pc |-> "none", missionId |-> None, droneId |-> None,
     mission |-> NoMission, missionWaypoints |-> <<>>, drone |-> NoDrone, waypoints |-> <<>>,
     intervalId |-> None, activeDrones |-> <<>>, i |-> 0, final |-> FALSE,
     newLocation |-> Location(0, 0), n |-> 0, lag |-> 0]

\* A handler t is suspended at its next await as u; a handler whose state would be
\* indistinguishable from another suspended one waits for that one to move on.
Suspend(t, u) == u \notin tasks /\ tasks' = (tasks \ {t}) \cup {u}
Dispatch(u) == u \notin tasks /\ tasks' = tasks \cup {u}
Finish(t) == tasks' = tasks \ {t}

\* ------------------------------------------------------------ ws: start-mission-simulation
\* const mission = await storage.getMission(missionId)
WsStartMission(limit, m, d) ==
    /\ CanDispatch(limit)
    /\ LET assignments == getDroneAssignmentsByMission(m)
       IN Dispatch([BlankTask EXCEPT !.kind = "start", !.pc = "getDrone", !.missionId = m, !.droneId = d,
                                     !.mission = getMission(AttachWaypoints(missions, m), m),
                                     !.missionWaypoints =
                                         IF Len(assignments) > 0 THEN assignments[1].waypoints ELSE <<>>])
    /\ missions' = AttachWaypoints(missions, m)
    /\ Publish(<<>>)
    /\ step' = Did("startGetMission", m, d, 0)
    /\ UNCHANGED <<drones, droneAssignments, currentMissionId, simVars>>

\* const drone = await storage.getDrone(droneId)
StartGetDrone(t) ==
    /\ t.kind = "start" /\ t.pc = "getDrone"
    /\ Suspend(t, [t EXCEPT !.pc = "getAssignments", !.drone = getDrone(drones, t.droneId)])
    /\ Publish(<<>>)
    /\ step' = Did("startGetDrone", t.missionId, t.droneId, 0)
    /\ UNCHANGED <<storeVars, simVars>>

\* if (mission && drone)
Found(mission, drone) == mission # NoMission /\ drone # NoDrone

\* if (mission && drone) { const assignments = await storage.getDroneAssignmentsByMission(missionId)
StartGetAssignments(t) ==
    /\ t.kind = "start" /\ t.pc = "getAssignments"
    /\ LET assignments == getDroneAssignmentsByMission(t.missionId)
       IN IF Found(t.mission, t.drone)
          THEN /\ Suspend(t, [t EXCEPT !.pc = "simulate",
                                       !.waypoints = IF Len(assignments) > 0
                                                     THEN assignments[1].waypoints
                                                     ELSE t.missionWaypoints])
               /\ step' = Did("startGetAssignments", t.missionId, t.droneId, 0)
          ELSE /\ Finish(t)
               /\ step' = Did("startNotFound", t.missionId, t.droneId, 0)
    /\ Publish(<<>>)
    /\ UNCHANGED <<storeVars, simVars>>

\* if (!waypoints || waypoints.length < 2) return
InsufficientWaypoints(waypoints) == Len(waypoints) < 2

\* startDroneSimulation up to its first await: the waypoint guard, then
\* await storage.updateDrone(drone.id, { lastKnownLocation: path[0], status, assignedMissionId })
startDroneSimulation(t) ==
    /\ t.kind = "start" /\ t.pc = "simulate"
    /\ LET path == ToPath(t.waypoints)
       IN IF InsufficientWaypoints(t.waypoints)
          THEN /\ Finish(t)
               /\ drones' = drones
               /\ step' = Did("startInsufficient", t.missionId, t.droneId, 0)
          ELSE /\ drones' = updateDrone(drones, t.droneId,
                                        [lastKnownLocation |-> path[1], status |-> "in-mission",
                                         assignedMissionId |-> t.missionId])
               /\ Suspend(t, [t EXCEPT !.pc = "getUpdated"])
               /\ step' = Did("startUpdateDrone", t.missionId, t.droneId, 0)
    /\ Publish(<<>>)
    /\ UNCHANGED <<missions, droneAssignments, currentMissionId, simVars>>

\* const updatedDrone = await storage.getDrone(drone.id)
StartGetUpdated(t) ==
    /\ t.kind = "start" /\ t.pc = "getUpdated"
    /\ Suspend(t, [t EXCEPT !.pc = "register", !.drone = getDrone(drones, t.droneId)])
    /\ Publish(<<>>)
    /\ step' = Did("startGetUpdated", t.missionId, t.droneId, 0)
    /\ UNCHANGED <<storeVars, simVars>>

\* if (!activeMissionSimulations.has(missionId)) set(...) else push the drone once
CreateOrUpdateEntry(old, d, path) ==
    IF old = NoSim
    THEN [activeDrones |-> <<d>>, currentWaypointIndex |-> 0, path |-> path, intervalId |-> None]
    ELSE IF d \in Range(old.activeDrones) THEN old
         ELSE [old EXCEPT !.activeDrones = Append(@, d)]

\* if (sim.intervalId === null)
NeedsInterval(sim) == sim.intervalId = None

\* broadcast the initial position, create or update the registry entry, start the interval
StartRegister(t) ==
    /\ t.kind = "start" /\ t.pc = "register"
    /\ LET m == t.missionId
           old == activeMissionSimulations[m]
           sim == CreateOrUpdateEntry(old, t.droneId, ToPath(t.waypoints))
           entry == IF NeedsInterval(sim) THEN [sim EXCEPT !.intervalId = nextTimerId] ELSE sim
       IN /\ Publish(broadcastDroneUpdate(t.droneId, t.drone))
          /\ activeMissionSimulations' = [activeMissionSimulations EXCEPT ![m] = entry]
          /\ IF NeedsInterval(sim)
             THEN /\ timers' = timers \cup {[id |-> nextTimerId, missionId |-> m, progress |-> 0, fired |-> 0]}
                  /\ nextTimerId' = nextTimerId + 1
             ELSE UNCHANGED <<timers, nextTimerId>>
          \* the array a suspended tick iterates is the entry's own array
          /\ tasks' = {IF r.kind = "tick" /\ r.missionId = m /\ old # NoSim /\ r.intervalId = old.intervalId
                       THEN [r EXCEPT !.activeDrones = entry.activeDrones]
                       ELSE r : r \in tasks \ {t}}
          /\ step' = Did(IF old = NoSim THEN "startCreated" ELSE "startMerged", m, t.droneId, 0)
    /\ UNCHANGED storeVars

\* ------------------------------------------------------------ the interval callback
\* The handlers still suspended when an interval fires have waited one more period.
Aged == {[r EXCEPT !.lag = r.lag + 1] : r \in tasks}

\* (faulty variant) a clearInterval that cancels nothing
clearNothing(scheduled, id) == scheduled

\* clearInterval(simulation.intervalId)
clearInterval(scheduled, id) == {u \in scheduled : u.id # id}

\* simulation.currentWaypointIndex >= path.length - 1
PathDone(simulation) == simulation.currentWaypointIndex >= Len(simulation.path) - 1

\* progress += 0.05; if (progress >= 1) { progress = 0; simulation.currentWaypointIndex++ }
Rolled(t) == t.progress + ProgressStep >= ProgressFull
Advance(t) == IF Rolled(t) THEN 0 ELSE t.progress + ProgressStep

\* The write of the tick's loop for one drone.
TickWrite(final, newLocation) ==
    IF final
    THEN [lastKnownLocation |-> newLocation, status |-> "available", assignedMissionId |-> None]
    ELSE [lastKnownLocation |-> newLocation]

\* The callback up to its first await (or its return).
TimerFires(limit, t) ==
    /\ t \in timers
    /\ CanDispatch(limit)
    /\ \A r \in tasks : r.lag < MaxLag
    /\ LET m == t.missionId
           simulation == activeMissionSimulations[m]
           n == t.fired + 1
       IN IF simulation = NoSim
          THEN \* clearInterval(sim.intervalId); return
               /\ timers' = timers \ {t}
               /\ tasks' = Aged
               /\ step' = Did("tickNoEntry", m, None, n)
               /\ UNCHANGED <<drones, activeMissionSimulations>>
          ELSE IF PathDone(simulation)
          THEN \* reached the end of the path: clearInterval(simulation.intervalId), first drone's final write
               LET last == simulation.path[Len(simulation.path)]
               IN /\ timers' = clearInterval(timers, simulation.intervalId)
                  /\ drones' = updateDrone(drones, simulation.activeDrones[1], TickWrite(TRUE, last))
                  /\ tasks' = Aged \cup
                         {[BlankTask EXCEPT !.kind = "tick", !.pc = "getDrone", !.missionId = m,
                                            !.droneId = simulation.activeDrones[1],
                                            !.intervalId = simulation.intervalId,
                                            !.activeDrones = simulation.activeDrones, !.i = 1,
                                            !.final = TRUE, !.newLocation = last, !.n = n]}
                  /\ step' = Did("tickFinalUpdate", m, simulation.activeDrones[1], n)
                  /\ UNCHANGED activeMissionSimulations
          ELSE LET index == IF Rolled(t) THEN simulation.currentWaypointIndex + 1
                            ELSE simulation.currentWaypointIndex
                   after == [t EXCEPT !.progress = Advance(t), !.fired = n]
               IN /\ timers' = (timers \ {t}) \cup {after}
                  /\ activeMissionSimulations' =
                         [activeMissionSimulations EXCEPT ![m].currentWaypointIndex = index]
                  /\ IF Rolled(t) /\ index >= Len(simulation.path) - 1
                     THEN \* "We'll handle this in the next iteration"
                          /\ tasks' = Aged
                          /\ step' = Did("tickRollover", m, None, n)
                          /\ UNCHANGED drones
                     ELSE LET newLocation == Interpolate(simulation.path[index + 1],
                                                         simulation.path[index + 2], after.progress)
                          IN /\ drones' = updateDrone(drones, simulation.activeDrones[1],
                                                      TickWrite(FALSE, newLocation))
                             /\ tasks' = Aged \cup
                                    {[BlankTask EXCEPT !.kind = "tick", !.pc = "getDrone", !.missionId = m,
                                                       !.droneId = simulation.activeDrones[1],
                                                       !.intervalId = simulation.intervalId,
                                                       !.activeDrones = simulation.activeDrones, !.i = 1,
                                                       !.newLocation = newLocation, !.n = n]}
                             /\ step' = Did("tickUpdate", m, simulation.activeDrones[1], n)
    /\ Publish(<<>>)
    /\ UNCHANGED <<missions, droneAssignments, currentMissionId, nextTimerId>>

\* The callback when the storage write at its first await rejects: the callback has no
\* try/catch, so it ends there; what it did before the await (clearInterval, progress,
\* currentWaypointIndex) stays done.
TickWriteFails(limit, t) ==
    /\ t \in timers
    /\ CanDispatch(limit)
    /\ LET m == t.missionId
           simulation == activeMissionSimulations[m]
           n == t.fired + 1
       IN /\ simulation # NoSim
          /\ IF PathDone(simulation)
             THEN /\ timers' = clearInterval(timers, simulation.intervalId)
                  /\ step' = Did("tickFinalFailed", m, simulation.activeDrones[1], n)
                  /\ UNCHANGED activeMissionSimulations
             ELSE LET index == IF Rolled(t) THEN simulation.currentWaypointIndex + 1
                               ELSE simulation.currentWaypointIndex
                  IN \* the tick that only moves to the last segment's end makes no storage call
                     /\ ~(Rolled(t) /\ index >= Len(simulation.path) - 1)
                     /\ timers' = (timers \ {t}) \cup {[t EXCEPT !.progress = Advance(t), !.fired = n]}
                     /\ activeMissionSimulations' =
                            [activeMissionSimulations EXCEPT ![m].currentWaypointIndex = index]
                     /\ step' = Did("tickFailed", m, simulation.activeDrones[1], n)
    /\ tasks' = Aged
    /\ Publish(<<>>)
    /\ UNCHANGED <<storeVars, nextTimerId>>

\* const updatedDrone = await storage.getDrone(droneId)   (finalDrone on the last tick)
TickGetDrone(t) ==
    /\ t.kind = "tick" /\ t.pc = "getDrone"
    /\ Suspend(t, [t EXCEPT !.pc = "broadcast", !.drone = getDrone(drones, t.droneId)])
    /\ Publish(<<>>)
    /\ step' = Did("tickGetDrone", t.missionId, t.droneId, t.n)
    /\ UNCHANGED <<storeVars, simVars>>

\* broadcast the drone read, then the next drone's write; after the last drone the
\* position tick returns and the final tick writes the mission
TickBroadcast(t) ==
    /\ t.kind = "tick" /\ t.pc = "broadcast"
    /\ Publish(broadcastDroneUpdate(t.droneId, t.drone))
    /\ IF t.i < Len(t.activeDrones)
       THEN /\ drones' = updateDrone(drones, t.activeDrones[t.i + 1], TickWrite(t.final, t.newLocation))
            /\ Suspend(t, [t EXCEPT !.pc = "getDrone", !.i = t.i + 1, !.droneId = t.activeDrones[t.i + 1],
                                    !.drone = NoDrone])
            /\ step' = Did(IF t.final THEN "tickFinalUpdate" ELSE "tickUpdate",
                           t.missionId, t.activeDrones[t.i + 1], t.n)
            /\ UNCHANGED missions
       ELSE IF t.final
       THEN /\ missions' = updateMission(missions, t.missionId, [status |-> "completed"])
            /\ Suspend(t, [t EXCEPT !.pc = "delete", !.drone = NoDrone])
            /\ step' = Did("tickUpdateMission", t.missionId, None, t.n)
            /\ UNCHANGED drones
       ELSE /\ Finish(t)
            /\ step' = Did("tickMoved", t.missionId, None, t.n)
            /\ UNCHANGED <<drones, missions>>
    /\ UNCHANGED <<droneAssignments, currentMissionId, simVars>>

\* (faulty variant) a completing tick that returns without removing the entry
TickReturns(t) ==
    /\ t.kind = "tick" /\ t.pc = "delete"
    /\ Finish(t)
    /\ Publish(<<>>)
    /\ step' = Did("tickCompleted", t.missionId, None, t.n)
    /\ UNCHANGED <<storeVars, simVars>>

\* activeMissionSimulations.delete(missionId); return
TickDelete(t) ==
    /\ t.kind = "tick" /\ t.pc = "delete"
    /\ activeMissionSimulations' = [activeMissionSimulations EXCEPT ![t.missionId] = NoSim]
    /\ Finish(t)
    /\ Publish(<<>>)
    /\ step' = Did("tickCompleted", t.missionId, None, t.n)
    /\ UNCHANGED <<storeVars, timers, nextTimerId>>

\* ------------------------------------------------------------ ws: drone-location-update
\* const drone = await storage.getDrone(droneId)
WsLocationUpdate(limit, d, location) ==
    /\ CanDispatch(limit)
    /\ Dispatch([BlankTask EXCEPT !.kind = "update", !.pc = "update", !.droneId = d,
                                  !.drone = getDrone(drones, d), !.newLocation = location])
    /\ Publish(<<>>)
    /\ step' = Did("updateGetDrone", None, d, 0)
    /\ UNCHANGED <<storeVars, simVars>>

\* if (drone) { const updatedDrone = await storage.updateDrone(droneId, { lastKnownLocation: location })
UpdateWrite(t) ==
    /\ t.kind = "update" /\ t.pc = "update"
    /\ IF t.drone # NoDrone
       THEN /\ drones' = updateDrone(drones, t.droneId, [lastKnownLocation |-> t.newLocation])
            /\ Suspend(t, [t EXCEPT !.pc = "broadcast", !.drone = getDrone(drones', t.droneId)])
            /\ step' = Did("updateWrite", None, t.droneId, 0)
       ELSE /\ Finish(t)
            /\ drones' = drones
            /\ step' = Did("updateNotFound", None, t.droneId, 0)
    /\ Publish(<<>>)
    /\ UNCHANGED <<missions, droneAssignments, currentMissionId, simVars>>

\* if (updatedDrone) broadcastDroneUpdate(updatedDrone)
UpdateBroadcast(t) ==
    /\ t.kind = "update" /\ t.pc = "broadcast"
    /\ Publish(broadcastDroneUpdate(t.droneId, t.drone))
    /\ Finish(t)
    /\ step' = Did("updateBroadcast", None, t.droneId, 0)
    /\ UNCHANGED <<storeVars, simVars>>

\* ------------------------------------------------------------ REST handlers
\* Each runs to its end in one step: its awaits are MemStorage calls only.

\* for (const assignment of assignments) { if (drone && drone.status === 'available') updateDrone(in-mission) }
RECURSIVE ActivateAssigned(_, _, _)
ActivateAssigned(store, assignments, m) ==
    IF assignments = <<>> THEN store
    ELSE LET d == Head(assignments).droneId
             drone == getDrone(store, d)
         IN ActivateAssigned(IF drone # NoDrone /\ drone.status = "available"
                             THEN updateDrone(store, d, [status |-> "in-mission", assignedMissionId |-> m])
                             ELSE store,
                             Tail(assignments), m)

\* for (const assignment of assignments) updateDrone(assignment.droneId, { status: 'available' })
RECURSIVE ReleaseAssigned(_, _)
ReleaseAssigned(store, assignments) ==
    IF assignments = <<>> THEN store
    ELSE ReleaseAssigned(updateDrone(store, Head(assignments).droneId, [status |-> "available"]),
                         Tail(assignments))

\* the mission-launched event sent to every open client
MissionLaunched(m, waypoints) == <<[type |-> "mission-launched", id |-> m, waypoints |-> waypoints]>>

\* POST /api/missions: createMission; with location.launchImmediately the new mission is
\* set in-progress (it has no assignments yet, so no drone is touched and nothing is sent)
PostMission(launchImmediately) ==
    /\ currentMissionId \in MissionIds
    /\ missions' = [missions EXCEPT ![currentMissionId] =
                       [status |-> IF launchImmediately THEN "in-progress" ELSE "planned"]]
    /\ currentMissionId' = currentMissionId + 1
    /\ Publish(<<>>)
    /\ step' = Did(IF launchImmediately THEN "postMissionLaunch" ELSE "postMission", currentMissionId, None, 0)
    /\ UNCHANGED <<drones, droneAssignments, simVars, tasks>>

\* PATCH /api/missions/:id with body { status }
PatchMission(m, status) ==
    /\ getMission(missions, m) # NoMission
    /\ missions' = updateMission(missions, m, [status |-> status])
    /\ drones' = IF status = "in-progress"
                 THEN ActivateAssigned(drones, getDroneAssignmentsByMission(m), m)
                 ELSE drones
    /\ Publish(<<>>)
    /\ step' = Did("patchMission", m, None, 0)
    /\ UNCHANGED <<droneAssignments, currentMissionId, simVars, tasks>>

\* POST /api/missions/:id/assignments with body { droneId, waypoints }
PostAssignment(m, d, waypoints) ==
    /\ getMission(missions, m) # NoMission
    /\ Len(droneAssignments[m]) < MaxAssignments
    /\ droneAssignments' = [droneAssignments EXCEPT ![m] = Append(@, [droneId |-> d, waypoints |-> waypoints])]
    /\ drones' = updateDrone(drones, d, [status |-> "in-mission", assignedMissionId |-> m])
    /\ Publish(IF missions[m].status = "in-progress" THEN MissionLaunched(m, waypoints) ELSE <<>>)
    /\ step' = Did("postAssignment", m, d, 0)
    /\ UNCHANGED <<missions, currentMissionId, simVars, tasks>>

\* POST /api/missions/:id/results
PostResults(m) ==
    /\ getMission(missions, m) # NoMission
    /\ missions' = updateMission(missions, m, [status |-> "completed"])
    /\ drones' = ReleaseAssigned(drones, getDroneAssignmentsByMission(m))
    /\ Publish(<<>>)
    /\ step' = Did("postResults", m, None, 0)
    /\ UNCHANGED <<droneAssignments, currentMissionId, simVars, tasks>>

Rest ==
    \/ \E launchImmediately \in BOOLEAN : PostMission(launchImmediately)
    \/ \E m \in MissionIds, status \in PatchStatuses : PatchMission(m, status)
    \/ \E m \in MissionIds, d \in DroneIds : \E waypoints \in WaypointInputs(m) : PostAssignment(m, d, waypoints)
    \/ \E m \in MissionIds : PostResults(m)

\* DELETE /api/missions/:id: storage.deleteMission(missionId)
DeleteMission(m) ==
    /\ getMission(missions, m) # NoMission
    /\ missions' = [missions EXCEPT ![m] = NoMission]
    /\ Publish(<<>>)
    /\ step' = Did("deleteMission", m, None, 0)
    /\ UNCHANGED <<drones, droneAssignments, currentMissionId, simVars, tasks>>

\* DELETE /api/drones/:id: storage.deleteDrone(droneId)
DeleteDrone(d) ==
    /\ getDrone(drones, d) # NoDrone
    /\ drones' = [drones EXCEPT ![d] = NoDrone]
    /\ Publish(<<>>)
    /\ step' = Did("deleteDrone", None, d, 0)
    /\ UNCHANGED <<missions, droneAssignments, currentMissionId, simVars, tasks>>

Deletes ==
    \/ \E m \in MissionIds : DeleteMission(m)
    \/ \E d \in DroneIds : DeleteDrone(d)

\* ------------------------------------------------------------ connections
\* wss.on('connection', ws => { ws.on('message', ...); ws.send(connected) })
Connect(c) ==
    /\ clients[c].readyState = "absent"
    /\ sent' = [d \in ClientIds |-> IF d = c THEN ConnectedHandshake ELSE <<>>]
    /\ clients' = [clients EXCEPT ![c] = Receive([NoClient EXCEPT !.readyState = "OPEN"], ConnectedHandshake)]
    /\ published' = <<>>
    /\ step' = Did("connect", None, None, c)
    /\ UNCHANGED <<storeVars, simVars, tasks, browser>>

\* The peer starts the closing handshake: the socket stays in wss.clients, no longer OPEN.
ClientClosing(c) ==
    /\ clients[c].readyState = "OPEN"
    /\ clients' = [clients EXCEPT ![c].readyState = "CLOSING"]
    /\ sent' = [d \in ClientIds |-> <<>>]
    /\ published' = <<>>
    /\ step' = Did("closing", None, None, c)
    /\ UNCHANGED <<storeVars, simVars, tasks, browser>>

\* The socket has closed: the server drops it from wss.clients.
ClientClosed(c) ==
    /\ clients[c].readyState = "CLOSING"
    /\ clients' = [clients EXCEPT ![c] = NoClient]
    /\ sent' = [d \in ClientIds |-> <<>>]
    /\ published' = <<>>
    /\ step' = Did("closed", None, None, c)
    /\ UNCHANGED <<storeVars, simVars, tasks, browser>>

Connections ==
    \E c \in ClientIds : Connect(c) \/ ClientClosing(c) \/ ClientClosed(c)

\* ------------------------------------------------------------ next-state relation
StartsInFlight == Cardinality({t \in tasks : t.kind = "start"})

\* What arrives from outside: start messages naming a mission in `ms` and a drone in `ds`,
\* manual updates naming a drone in `us`, and the intervals firing; at most `limit`
\* handlers are in flight.
Requests(limit, ms, ds, us) ==
    \/ \E m \in ms, d \in ds :
           /\ nextTimerId + StartsInFlight <= MaxSimulations
           /\ WsStartMission(limit, m, d)
    \/ \E d \in us, location \in ManualLocations : WsLocationUpdate(limit, d, location)
    \/ \E t \in timers : TimerFires(limit, t)

Resumes ==
    \E t \in tasks :
        \/ StartGetDrone(t)
        \/ StartGetAssignments(t)
        \/ startDroneSimulation(t)
        \/ StartGetUpdated(t)
        \/ StartRegister(t)
        \/ TickGetDrone(t)
        \/ TickBroadcast(t)
        \/ TickDelete(t)
        \/ UpdateWrite(t)
        \/ UpdateBroadcast(t)

\* MemStorage resolves every call at once: a handler runs to its end before the
\* event loop dispatches the next timer or message.
Next == Requests(1, MissionIds, RequestDroneIds, RequestDroneIds) \/ Resumes

Spec == Init /\ [][Next]_vars

\* The operator's REST requests together with the engine, from a file without assignments.
NextRest == Requests(1, MissionIds, DroneIds, DroneIds) \/ Resumes \/ (Idle /\ Rest)

SpecRest == InitRest /\ [][NextRest]_vars

\* A store whose calls take time (any IStorage): handlers stay suspended at their awaits
\* while other messages and intervals are dispatched.
InitAsync == Init /\ droneAssignments[1][1].waypoints = ShortPath

NextAsync == Requests(MaxInFlight, {1}, DroneIds, {1}) \/ Resumes

SpecAsync == InitAsync /\ [][NextAsync]_vars

\* The engine with viewers connecting and leaving between the handlers.
InitWs == Init /\ droneAssignments[1][1].waypoints = ShortPath

NextWs == Requests(1, {1}, {1}, {1}) \/ Resumes \/ (Idle /\ Connections)

SpecWs == InitWs /\ [][NextWs]_vars

\* The engine on a store whose writes can be rejected.
NextFail == Requests(1, {1}, {1}, {1}) \/ Resumes \/ \E t \in timers : TickWriteFails(1, t)

SpecFail == Init /\ [][NextFail]_vars

\* The engine while the operator deletes missions and drones.
NextDelete == Requests(1, {1}, DroneIds, {1}) \/ Resumes \/ (Idle /\ Deletes)

SpecDelete == Init /\ [][NextDelete]_vars

\* PUT /api/assignments/:id with body { waypoints }: storage.updateDroneAssignment
PutWaypoints == {ShortPath, DetourPath}

PutAssignment(m, waypoints) ==
    /\ Len(getDroneAssignmentsByMission(m)) > 0
    /\ getMission(missions, m) # NoMission
    /\ droneAssignments' = [droneAssignments EXCEPT ![m][1].waypoints = waypoints]
    /\ Publish(<<>>)
    /\ step' = Did("putAssignment", m, None, 0)
    /\ UNCHANGED <<drones, missions, currentMissionId, simVars, tasks>>

\* The engine while the planner redraws the stored assignment's waypoints.
InitPut == Init /\ droneAssignments[1][1].waypoints = ShortPath

NextPut ==
    \/ Requests(1, {1}, DroneIds, {1})
    \/ Resumes
    \/ (Idle /\ \E waypoints \in PutWaypoints : PutAssignment(1, waypoints))

SpecPut == InitPut /\ [][NextPut]_vars

\* A file with two planned missions, each with one drone assigned and its own waypoints.
InitTwo ==
    /\ drones = [d \in DroneIds |->
                    [status |-> "in-mission", assignedMissionId |-> d, lastKnownLocation |-> Location(0, 0)]]
    /\ missions = [m \in MissionIds |-> [status |-> "planned"]]
    /\ droneAssignments = [m \in MissionIds |->
                              <<[droneId |-> m, waypoints |-> IF m = 1 THEN ShortPath ELSE DetourPath]>>]
    /\ currentMissionId = 3
    /\ activeMissionSimulations = [m \in MissionIds |-> NoSim]
    /\ timers = {}
    /\ nextTimerId = 1
    /\ tasks = {}
    /\ published = <<>>
    /\ clients = [c \in ClientIds |-> NoClient]
    /\ sent = [c \in ClientIds |-> <<>>]
    /\ step = Did("init", None, None, 0)
    /\ browser = NoBrowser

NextTwo == Requests(1, MissionIds, DroneIds, {1}) \/ Resumes

SpecTwo == InitTwo /\ [][NextTwo]_vars

\* A file whose stored assignment has a waypoint without lat.
InitMalformed ==
    /\ drones = [d \in DroneIds |->
                    IF d = 1
                    THEN [status |-> "in-mission", assignedMissionId |-> 1, lastKnownLocation |-> Location(0, 0)]
                    ELSE [status |-> "available", assignedMissionId |-> None, lastKnownLocation |-> Location(0, 0)]]
    /\ missions = [m \in MissionIds |-> IF m = 1 THEN [status |-> "planned"] ELSE NoMission]
    /\ droneAssignments = [m \in MissionIds |->
                              IF m = 1 THEN <<[droneId |-> 1, waypoints |-> MalformedPath]>> ELSE <<>>]
    /\ currentMissionId = 2
    /\ activeMissionSimulations = [m \in MissionIds |-> NoSim]
    /\ timers = {}
    /\ nextTimerId = 1
    /\ tasks = {}
    /\ published = <<>>
    /\ clients = [c \in ClientIds |-> NoClient]
    /\ sent = [c \in ClientIds |-> <<>>]
    /\ step = Did("init", None, None, 0)
    /\ browser = NoBrowser

NextMalformed == Requests(1, {1}, DroneIds, {1}) \/ Resumes

SpecMalformed == InitMalformed /\ [][NextMalformed]_vars

\* The event loop runs every interval that is due and resumes every handler whose
\* storage call has resolved, however many messages keep arriving.
Fairness ==
    /\ SF_vars(\E t \in timers : TimerFires(1, t))
    /\ WF_vars(Resumes)

InitLive == Init /\ droneAssignments[1][1].waypoints = ShortPath

NextLive == Requests(1, {1}, DroneIds, {1}) \/ Resumes

SpecLive == InitLive /\ [][NextLive]_vars /\ Fairness

\* A file whose mission 1 was stored with a waypoint list of its own, with no assignment
\* or with one assignment of one or of three waypoints.
LevelAssignments == {<<>>, <<[droneId |-> 1, waypoints |-> OnePoint]>>, <<[droneId |-> 1, waypoints |-> LongPath]>>}

InitLevel ==
    /\ drones = [d \in DroneIds |->
                    IF d = 1
                    THEN [status |-> "in-mission", assignedMissionId |-> 1, lastKnownLocation |-> Location(0, 0)]
                    ELSE [status |-> "available", assignedMissionId |-> None, lastKnownLocation |-> Location(0, 0)]]
    /\ missions = [m \in MissionIds |->
                      IF m = 1 THEN [status |-> "planned", waypoints |-> ShortPath] ELSE NoMission]
    /\ \E assignments \in LevelAssignments :
           droneAssignments = [m \in MissionIds |-> IF m = 1 THEN assignments ELSE <<>>]
    /\ currentMissionId = 2
    /\ activeMissionSimulations = [m \in MissionIds |-> NoSim]
    /\ timers = {}
    /\ nextTimerId = 1
    /\ tasks = {}
    /\ published = <<>>
    /\ clients = [c \in ClientIds |-> NoClient]
    /\ sent = [c \in ClientIds |-> <<>>]
    /\ step = Did("init", None, None, 0)
    /\ browser = NoBrowser

NextLevel == Requests(1, {1}, DroneIds, {1}) \/ Resumes

SpecLevel == InitLevel /\ [][NextLevel]_vars

\* Messages a connection sends that no branch of ws.on('message') handles: text that
\* JSON.parse rejects, and JSON of another type (carrying what an update would carry).
UnhandledLocation == Location(60, 60)

UnhandledMessages ==
    {[json |-> FALSE, type |-> "", missionId |-> 1, droneId |-> 1, location |-> UnhandledLocation],
     [json |-> TRUE, type |-> "ping", missionId |-> 1, droneId |-> 1, location |-> UnhandledLocation]}

\* (faulty variant) a handler that takes every message carrying a location for an update
HandlerByPayload(message) == IF ~message.json THEN "catch" ELSE "update"

\* try { data = JSON.parse(message) ; if (data.type === ...) else if (data.type === ...) } catch
HandlerFor(message) ==
    IF ~message.json THEN "catch"
    ELSE IF message.type = "drone-location-update" THEN "update"
    ELSE IF message.type = "start-mission-simulation" THEN "start"
    ELSE "none"

\* ws.on('message', async message => {...}) for a message of the open connection c
WsMessage(limit, c, message) ==
    /\ clients[c].readyState = "OPEN"
    /\ IF HandlerFor(message) = "update"
       THEN WsLocationUpdate(limit, message.droneId, message.location)
       ELSE IF HandlerFor(message) = "start"
       THEN WsStartMission(limit, message.missionId, message.droneId)
       ELSE \* console.error in the catch, or no branch taken: the handler returns
            /\ CanDispatch(limit)
            /\ Publish(<<>>)
            /\ step' = Did(IF HandlerFor(message) = "catch" THEN "messageRejected" ELSE "messageIgnored",
                           None, None, c)
            /\ UNCHANGED progVars

\* The engine and its viewers, who also send messages the server does not know.
InitMsg == Init /\ droneAssignments[1][1].waypoints = ShortPath

NextMsg ==
    \/ Requests(1, {1}, {1}, {1})
    \/ Resumes
    \/ \E c \in ClientIds, message \in UnhandledMessages : WsMessage(1, c, message)
    \/ (Idle /\ Connections)

SpecMsg == InitMsg /\ [][NextMsg]_vars

\* ------------------------------------------------------------ client: lib/websocket.ts
serverVars == <<drones, missions, droneAssignments, activeMissionSimulations, timers, nextTimerId,
                tasks, currentMissionId, published, step, clients, sent>>

NormalClosure == 1000
\* 1005 is what socket.close() without a code gives, 1006 a lost connection.
CloseCodes == {NormalClosure, 1005, 1006}

\* (faulty variant) a close handler that does not look at the code
ReconnectsAlways(code) == TRUE

\* if (event.code !== 1000)
ShouldReconnect(code) == code # NormalClosure

\* const socket = new WebSocket(wsUrl), with its listeners; `origin` is the socket whose
\* close handler made the call (None for a call of a page)
createWebSocketConnection(b, origin) ==
    [b EXCEPT !.sockets = Append(@, [readyState |-> "CONNECTING", code |-> None, origin |-> origin])]

\* A page mounts: useEffect calls createWebSocketConnection().
PageConnects ==
    /\ Len(browser.sockets) < MaxSockets
    /\ browser' = createWebSocketConnection(browser, None)
    /\ UNCHANGED serverVars

\* The open event.
SocketOpens(s) ==
    /\ browser.sockets[s].readyState = "CONNECTING"
    /\ browser' = [browser EXCEPT !.sockets[s].readyState = "OPEN"]
    /\ UNCHANGED serverVars

\* The close event with its code: setTimeout(() => createWebSocketConnection(), 5000)
\* unless the closure was normal.
SocketCloses(s, code) ==
    /\ browser.sockets[s].readyState \in {"CONNECTING", "OPEN"}
    /\ browser' = [browser EXCEPT !.sockets[s].readyState = "CLOSED",
                                  !.sockets[s].code = code,
                                  !.timeouts = IF ShouldReconnect(code) THEN Append(@, s) ELSE @]
    /\ UNCHANGED serverVars

\* A reconnect timeout is due: createWebSocketConnection()
ReconnectFires(i) ==
    /\ Len(browser.sockets) < MaxSockets
    /\ browser' = createWebSocketConnection(
                      [browser EXCEPT !.timeouts = SubSeq(@, 1, i - 1) \o SubSeq(@, i + 1, Len(@))],
                      browser.timeouts[i])
    /\ UNCHANGED serverVars

InitClient == Init /\ droneAssignments[1][1].waypoints = ShortPath

NextClient ==
    \/ PageConnects
    \/ \E s \in DOMAIN browser.sockets : SocketOpens(s)
    \/ \E s \in DOMAIN browser.sockets, code \in CloseCodes : SocketCloses(s, code)
    \/ \E i \in DOMAIN browser.timeouts : ReconnectFires(i)

SpecClient == InitClient /\ [][NextClient]_vars

\* ============================================================ claims
Sim(m) == activeMissionSimulations[m]
TimersOf(m) == {t \in timers : t.missionId = m}
TicksPerSegment == ProgressFull \div ProgressStep
LastOf(path) == path[Len(path)]

\* The point a fraction k/TicksPerSegment of the way from a to b.
LinearAt(a, b, k) ==
    Location(a.lat + ((b.lat - a.lat) * k) \div TicksPerSegment,
             a.lng + ((b.lng - a.lng) * k) \div TicksPerSegment)

\* Where the n-th tick of a simulation puts the drones.
PositionAfter(path, n) ==
    LinearAt(path[(n \div TicksPerSegment) + 1], path[(n \div TicksPerSegment) + 2], n % TicksPerSegment)

\* The waypoint list a start request for mission m resolves to.
RequestWaypoints(m) ==
    LET assignments == getDroneAssignmentsByMission(m)
    IN IF Len(assignments) > 0 THEN assignments[1].waypoints ELSE <<>>

\* The handlers that run in this step: the one dispatched, or the one resumed.
Acts(t) == (t \in tasks /\ t \notin tasks') \/ (t \in tasks' /\ t \notin tasks)

\* Nothing stored, registered, scheduled or sent.
NoMutation == UNCHANGED <<storeVars, simVars>> /\ published' = <<>>

\* C1 (as stated): once 20*(N-1) ticks of a simulation with an N-waypoint path have run,
\* the mission is completed and every participating drone is at the last waypoint.
C1_CompletedAfterTwentyPerSegment ==
    \A m \in MissionIds : \A t \in TimersOf(m) :
        (Sim(m) # NoSim /\ tasks = {} /\ t.fired = TicksPerSegment * (Len(Sim(m).path) - 1))
        => /\ missions[m].status = "completed"
           /\ \A d \in Range(Sim(m).activeDrones) :
                  getDrone(drones, d) # NoDrone => drones[d].lastKnownLocation = LastOf(Sim(m).path)

\* C1 (amended): the path is exhausted after exactly 20*(N-1) ticks and the tick after
\* that, tick 20*(N-1)+1, is the one that completes: when it ends the mission is
\* completed and every participating drone is at the last waypoint.
C1_CompletesOnTickAfterLastSegment ==
    [][\A m \in MissionIds :
          /\ activeMissionSimulations'[m] # NoSim =>
                 \A t \in {u \in timers' : u.missionId = m} :
                     /\ t.fired <= TicksPerSegment * (Len(activeMissionSimulations'[m].path) - 1)
                     /\ (t.fired = TicksPerSegment * (Len(activeMissionSimulations'[m].path) - 1))
                            <=> (activeMissionSimulations'[m].currentWaypointIndex
                                     >= Len(activeMissionSimulations'[m].path) - 1)
          /\ (Sim(m) # NoSim /\ activeMissionSimulations'[m] = NoSim) =>
                 /\ step'.n = TicksPerSegment * (Len(Sim(m).path) - 1) + 1
                 /\ missions'[m].status = "completed"
                 /\ \A d \in Range(Sim(m).activeDrones) :
                        getDrone(drones', d) # NoDrone
                            => drones'[d].lastKnownLocation = LastOf(Sim(m).path)
      ]_vars

C1_Witness ==
    /\ step.op = "tickCompleted"
    /\ step.n = TicksPerSegment * 2 + 1
    /\ Len(RequestWaypoints(step.missionId)) = 3
    /\ missions[step.missionId].status = "completed"

\* C2: when the completion transition of mission m ends, every drone of the entry's
\* activeDrones that still exists is at the last waypoint, available and unassigned, the
\* mission is completed, the registry has no entry for m and no interval of m is scheduled.
C2_CompletionReleasesDrones ==
    [][\A m \in MissionIds :
          (Sim(m) # NoSim /\ activeMissionSimulations'[m] = NoSim) =>
              /\ \A d \in Range(Sim(m).activeDrones) :
                     getDrone(drones', d) # NoDrone =>
                         /\ drones'[d].lastKnownLocation = LastOf(Sim(m).path)
                         /\ drones'[d].status = "available"
                         /\ drones'[d].assignedMissionId = None
              /\ getMission(missions', m) # NoMission => missions'[m].status = "completed"
              /\ {t \in timers' : t.missionId = m} = {}
      ]_vars

C2_Witness ==
    /\ step.op = "tickCompleted"
    /\ Sim(step.missionId) = NoSim
    /\ \A d \in DroneIds :
           /\ drones[d].status = "available" /\ drones[d].assignedMissionId = None
           /\ drones[d].lastKnownLocation = LastOf(ToPath(RequestWaypoints(step.missionId)))

\* C3: a start for a mission that has a registry entry adds its drone to the entry's
\* activeDrones, the drones of an entry are never dropped while it exists, and at the end
\* of every position tick every drone of activeDrones is at the tick's position.
C3_MergeAdvancesUnion ==
    [][\A m \in MissionIds :
          /\ (Sim(m) # NoSim /\ activeMissionSimulations'[m] # NoSim) =>
                 Range(Sim(m).activeDrones) \subseteq Range(activeMissionSimulations'[m].activeDrones)
          /\ (Sim(m) # NoSim /\ step'.missionId = m /\ step'.op \in {"startCreated", "startMerged"}) =>
                 /\ activeMissionSimulations'[m] # NoSim
                 /\ Range(activeMissionSimulations'[m].activeDrones)
                        = Range(Sim(m).activeDrones) \cup {step'.droneId}
          /\ (step'.missionId = m /\ step'.op = "tickMoved") =>
                 /\ activeMissionSimulations'[m] # NoSim
                 /\ \A d \in Range(activeMissionSimulations'[m].activeDrones) :
                        getDrone(drones', d) # NoDrone =>
                            drones'[d].lastKnownLocation
                                = PositionAfter(activeMissionSimulations'[m].path, step'.n)
      ]_vars

C3_Witness ==
    /\ step.op = "tickMoved"
    /\ Sim(step.missionId) # NoSim
    /\ Range(Sim(step.missionId).activeDrones) = DroneIds
    /\ \A d \in DroneIds : drones[d].lastKnownLocation = PositionAfter(Sim(step.missionId).path, step.n)
    /\ step.n > TicksPerSegment

\* C4: no mission ever has two intervals scheduled.
C4_OneIntervalPerMission ==
    \A m \in MissionIds : Cardinality(TimersOf(m)) <= 1

C4_Witness ==
    /\ TimersOf(1) # {}
    /\ \E a \in tasks : a.kind = "start" /\ a.pc = "register" /\ a.missionId = 1
    /\ \E b \in tasks : b.kind = "tick" /\ b.missionId = 1

\* C5 (as stated): a drone's status is in-mission exactly when its assignedMissionId names
\* a mission that is in progress or being simulated.
MissionActive(m) ==
    /\ m \in MissionIds
    /\ (getMission(missions, m) # NoMission /\ missions[m].status = "in-progress") \/ Sim(m) # NoSim

C5_InMissionIffAssignedToActive ==
    \A d \in DroneIds :
        drones[d] # NoDrone =>
            (drones[d].status = "in-mission" <=> MissionActive(drones[d].assignedMissionId))

C8_FirstSegmentInterpolation ==
    (step.op = "tickMoved" /\ step.n \in 1..(TicksPerSegment - 1)) =>
        /\ Sim(step.missionId) # NoSim
        /\ \A d \in Range(Sim(step.missionId).activeDrones) :
               getDrone(drones, d) # NoDrone =>
                   drones[d].lastKnownLocation
                       = LinearAt(Sim(step.missionId).path[1], Sim(step.missionId).path[2], step.n)

C8_Witness ==
    /\ step.op = "tickMoved"
    /\ step.n = TicksPerSegment - 1
    /\ drones[1].lastKnownLocation = Location(0, 19)

\* C9: a step of a tick that is not the completing one leaves the missions, every drone's
\* status and assignedMissionId, and every drone outside activeDrones as they were.
MidFlightFrame(m) ==
    /\ missions' = missions
    /\ droneAssignments' = droneAssignments
    /\ \A d \in DroneIds :
           /\ drones[d] # NoDrone => drones'[d] # NoDrone
           /\ drones[d] # NoDrone => drones'[d].status = drones[d].status
           /\ drones[d] # NoDrone => drones'[d].assignedMissionId = drones[d].assignedMissionId
           /\ (Sim(m) = NoSim \/ d \notin Range(Sim(m).activeDrones)) => drones'[d] = drones[d]

C9_MidFlightTickOnlyMoves ==
    [][/\ \A t \in tasks \cup tasks' : (t.kind = "tick" /\ ~t.final /\ Acts(t)) => MidFlightFrame(t.missionId)
       /\ step'.op = "tickRollover" => MidFlightFrame(step'.missionId)
      ]_vars

C9_Witness ==
    /\ step.op = "tickUpdate"
    /\ Sim(step.missionId) # NoSim
    /\ Sim(step.missionId).activeDrones = <<1>>
    /\ drones[1].lastKnownLocation = Location(0, 10)
    /\ drones[1].status = "in-mission"
    /\ drones[2].lastKnownLocation = Location(40, 40)

\* C10 (as stated): the step that sets a mission's status to in-progress leaves a registry
\* entry and a scheduled interval for it.
C10_ActivationStartsDriver ==
    [][\A m \in MissionIds :
          (/\ getMission(missions', m) # NoMission
           /\ missions'[m].status = "in-progress"
           /\ getMission(missions, m) = NoMission \/ missions[m].status # "in-progress")
          => (activeMissionSimulations'[m] # NoSim /\ {t \in timers' : t.missionId = m} # {})
      ]_vars

\* C11 (as stated): every mission that has a registry entry has stored status in-progress.
C11_SimulatedMissionInProgress ==
    \A m \in MissionIds :
        Sim(m) # NoSim => (getMission(missions, m) # NoMission /\ missions[m].status = "in-progress")

\* C12 (as stated): a mission whose stored status is completed keeps that status, and no
\* registry entry is created for it.
C12_CompletedIsTerminal ==
    [][\A m \in MissionIds :
          (getMission(missions, m) # NoMission /\ missions[m].status = "completed") =>
              /\ getMission(missions', m) # NoMission /\ missions'[m].status = "completed"
              /\ Sim(m) = NoSim => activeMissionSimulations'[m] = NoSim
      ]_vars

\* C13 (as stated): the step that deletes a mission with a registry entry, or a drone of
\* an entry's activeDrones, removes that entry and cancels that mission's interval.
C13_DeleteCancelsSimulation ==
    [][\A m \in MissionIds :
          (/\ Sim(m) # NoSim
           /\ \/ (step'.op = "deleteMission" /\ step'.missionId = m)
              \/ (step'.op = "deleteDrone" /\ step'.droneId \in Range(Sim(m).activeDrones)))
          => (activeMissionSimulations'[m] = NoSim /\ {t \in timers' : t.missionId = m} = {})
      ]_vars

\* The drones of mission m's entry that storage no longer holds.
Gone(m) == {d \in Range(Sim(m).activeDrones) : getDrone(drones, d) = NoDrone}

\* C15: while a drone of activeDrones is deleted from storage, no step creates a record
\* for it or sends an event for it, every position tick still puts the remaining drones
\* at the tick's position, and the completion still leaves the remaining drones released
\* at the last waypoint and the mission completed.
C15_DeletedDroneSkipped ==
    [][\A m \in MissionIds :
          (Sim(m) # NoSim /\ Gone(m) # {}) =>
              /\ \A d \in Gone(m) : drones'[d] = NoDrone
              /\ \A i \in DOMAIN published' : published'[i].id \notin Gone(m)
              /\ (step'.op = "tickMoved" /\ step'.missionId = m) =>
                     \A d \in Range(Sim(m).activeDrones) \ Gone(m) :
                         /\ activeMissionSimulations'[m] # NoSim
                         /\ drones'[d].lastKnownLocation
                                = PositionAfter(activeMissionSimulations'[m].path, step'.n)
              /\ activeMissionSimulations'[m] = NoSim =>
                     /\ step'.n = TicksPerSegment * (Len(Sim(m).path) - 1) + 1
                     /\ getMission(missions', m) # NoMission => missions'[m].status = "completed"
                     /\ \A d \in Range(Sim(m).activeDrones) \ Gone(m) :
                            /\ drones'[d].lastKnownLocation = LastOf(Sim(m).path)
                            /\ drones'[d].status = "available"
      ]_vars

C15_Witness ==
    /\ step.op = "tickUpdateMission"
    /\ Sim(1) # NoSim
    /\ Gone(1) = {1}
    /\ 2 \in Range(Sim(1).activeDrones)
    /\ missions[1].status = "completed"
    /\ drones[2].status = "available"
    /\ drones[2].lastKnownLocation = LastOf(Sim(1).path)

\* The steps of the interval callback.
TickOps == {"tickNoEntry", "tickFinalUpdate", "tickRollover", "tickUpdate", "tickGetDrone",
            "tickUpdateMission", "tickMoved", "tickCompleted"}

InActiveSimulation(d) == \E m \in MissionIds : Sim(m) # NoSim /\ d \in Range(Sim(m).activeDrones)

C20_ManualOnlyOutsideSimulation ==
    [][\A d \in DroneIds :
          (step'.op = "updateWrite" /\ step'.droneId = d /\ InActiveSimulation(d))
          => drones'[d].lastKnownLocation = drones[d].lastKnownLocation
      ]_vars

Broadcasts(messages) == SelectSeq(messages, LAMBDA e : e.type # "connected")

\* C17: every step sends the events it publishes, each once and in order, on every
\* connection that is OPEN when they are published, and on no other connection.
C17_PublishReachesOpenClients ==
    [][\A c \in ClientIds :
          Broadcasts(sent'[c]) = IF clients[c].readyState = "OPEN" THEN published' ELSE <<>>
      ]_vars

C17_Witness ==
    /\ published # <<>>
    /\ clients[1].readyState = "OPEN" /\ sent[1] = published
    /\ clients[2].readyState = "CLOSING" /\ sent[2] = <<>>

\* C18: every connection in wss.clients has been sent the connected handshake exactly once.
C18_HandshakeOncePerConnection ==
    \A c \in ClientIds : clients[c].readyState # "absent" => clients[c].handshakes = 1

C18_Witness ==
    /\ clients[1].readyState = "OPEN"
    /\ clients[1].handshakes = 1
    /\ clients[1].seen[1] = Location(0, 10)
    /\ clients[2].readyState = "CLOSING"
    /\ clients[2].handshakes = 1

\* C19: when no handler is in flight, the last drone-location-update an OPEN connection
\* was sent for a drone carries the location stored for that drone.
C19_ViewersConverge ==
    Idle =>
        \A c \in ClientIds, d \in DroneIds :
            (/\ clients[c].readyState = "OPEN"
             /\ clients[c].seen[d] # NoLocation
             /\ getDrone(drones, d) # NoDrone)
            => clients[c].seen[d] = drones[d].lastKnownLocation

C19_Witness ==
    /\ Idle
    /\ step.op = "updateBroadcast"
    /\ Sim(1) # NoSim
    /\ \E t \in TimersOf(1) : t.fired > 1
    /\ drones[1].lastKnownLocation = Location(40, 40)
    /\ \A c \in ClientIds : clients[c].readyState = "OPEN" /\ clients[c].seen[1] = Location(40, 40)


\* The events about mission m among `events` that are not drone-location-updates.
MissionStatusEvents(events, m) ==
    {i \in DOMAIN events : events[i].type = "mission-status" /\ events[i].id = m}

\* C21 (as stated): the completing tick publishes a mission-status event for its mission:
\* with the last drone's final drone-location-update, or when it removes the entry.
C21_CompletionPublishesMissionStatus ==
    [][step'.op = "tickCompleted"
       => \/ MissionStatusEvents(published, step'.missionId) # {}
          \/ MissionStatusEvents(published', step'.missionId) # {}]_vars

\* C22 (as stated): with a waypoint that has no lat in the mission's path, no stored drone
\* ever has a lastKnownLocation whose lat or lng is not a number, and once the driver has
\* met the waypoint the mission's simulation is gone.
C22_MalformedWaypointAborts ==
    /\ \A d \in DroneIds :
           getDrone(drones, d) # NoDrone
           => IsNumber(drones[d].lastKnownLocation.lat) /\ IsNumber(drones[d].lastKnownLocation.lng)
    /\ (Idle /\ step.op = "tickMoved") => Sim(step.missionId) = NoSim

\* C23 (as stated): a start request naming a mission whose running simulation already lists
\* the drone changes nothing: at every step of its handler the registry, the timers and
\* the stored drones stay as they were.
C23_RepeatedStartChangesNothing ==
    [][\A t \in tasks :
           (/\ t.kind = "start" /\ Acts(t)
            /\ Sim(t.missionId) # NoSim
            /\ TimersOf(t.missionId) # {}
            /\ t.droneId \in Range(Sim(t.missionId).activeDrones))
           => UNCHANGED <<drones, activeMissionSimulations, timers>>]_vars

\* C24: a tick of mission A leaves the registry entry and the timer of every other
\* mission as they were, and every drone it writes is in A's activeDrones.
C24_TickLeavesOtherMissions ==
    [][step'.op \in TickOps
       => LET a == step'.missionId
          IN /\ \A b \in MissionIds \ {a} :
                    /\ activeMissionSimulations'[b] = activeMissionSimulations[b]
                    /\ {t \in timers' : t.missionId = b} = TimersOf(b)
             /\ \A d \in DroneIds :
                    drones'[d] # drones[d] => Sim(a) # NoSim /\ d \in Range(Sim(a).activeDrones)]_vars

\* Mission 1 has ticked five times while mission 2, with another drone on another path,
\* has ticked three times.
C24_Witness ==
    /\ step.op = "tickMoved" /\ step.missionId = 1
    /\ Sim(1) # NoSim /\ Sim(1).activeDrones = <<1>>
    /\ Sim(2) # NoSim /\ Sim(2).activeDrones = <<2>>
    /\ \E t \in TimersOf(1) : t.fired = 5
    /\ \E t \in TimersOf(2) : t.fired = 3
    /\ drones[1].lastKnownLocation = Location(0, 5)
    /\ drones[2].lastKnownLocation = Location(20, 3)

\* C25: a start request that creates a registry entry (none existed, also after an earlier
\* simulation of the mission completed) leaves the entry at segment index 0 and schedules
\* exactly one interval for the mission, a new one, with progress 0 and no tick taken.
C25_NewEntryStartsAtZero ==
    [][\A m \in MissionIds :
           (Sim(m) = NoSim /\ activeMissionSimulations'[m] # NoSim)
           => LET entry == activeMissionSimulations'[m]
              IN /\ entry.currentWaypointIndex = 0
                 /\ entry.intervalId \notin {t.id : t \in timers}
                 /\ {t \in timers' : t.missionId = m} =
                        {[id |-> entry.intervalId, missionId |-> m, progress |-> 0, fired |-> 0]}]_vars

\* The second simulation of mission 1 has just been created after the first completed.
C25_Witness ==
    /\ step.op = "startCreated" /\ step.missionId = 1
    /\ missions[1].status = "completed"
    /\ Sim(1) # NoSim /\ Sim(1).intervalId = 2 /\ Sim(1).currentWaypointIndex = 0
    /\ TimersOf(1) = {[id |-> 2, missionId |-> 1, progress |-> 0, fired |-> 0]}

\* C26: the segment index of an entry is the number of its interval's ticks divided by 20
\* whatever the waypoints are, it never exceeds path.length - 1, and a step never lowers it
\* nor raises it by more than one.
C26_SegmentEveryTwentyTicks ==
    [][\A m \in MissionIds :
           activeMissionSimulations'[m] # NoSim
           => LET entry == activeMissionSimulations'[m]
              IN /\ entry.currentWaypointIndex <= Len(entry.path) - 1
                 /\ \A t \in timers' :
                        t.id = entry.intervalId
                        => /\ entry.currentWaypointIndex = t.fired \div TicksPerSegment
                           /\ t.progress = (t.fired % TicksPerSegment) * ProgressStep
                 /\ (Sim(m) # NoSim /\ Sim(m).intervalId = entry.intervalId)
                    => /\ entry.currentWaypointIndex >= Sim(m).currentWaypointIndex
                       /\ entry.currentWaypointIndex <= Sim(m).currentWaypointIndex + 1]_vars

\* The three-waypoint path, whose second segment is twice as long as the first, has
\* reached its last waypoint index on tick 40.
C26_Witness ==
    /\ step.op = "tickRollover" /\ step.n = 2 * TicksPerSegment
    /\ Sim(1) # NoSim /\ Sim(1).path = ToPath(LongPath)
    /\ Sim(1).currentWaypointIndex = 2
    /\ drones[1].lastKnownLocation = Location(38, 20)

\* C27: at every step of a start request's handler that finds a registry entry for its
\* mission, the entry keeps its path, segment index and interval, the timers (with their
\* progress) stay as they were, and activeDrones changes at most by the request's drone
\* appended once when it was not listed.
C27_MergeChangesOnlyActiveDrones ==
    [][\A t \in tasks :
           (t.kind = "start" /\ Acts(t) /\ Sim(t.missionId) # NoSim)
           => LET old == Sim(t.missionId)
                  new == activeMissionSimulations'[t.missionId]
              IN /\ new # NoSim
                 /\ new.path = old.path
                 /\ new.currentWaypointIndex = old.currentWaypointIndex
                 /\ new.intervalId = old.intervalId
                 /\ timers' = timers
                 /\ new.activeDrones =
                        IF step'.op = "startMerged" /\ t.droneId \notin Range(old.activeDrones)
                        THEN Append(old.activeDrones, t.droneId)
                        ELSE old.activeDrones]_vars

\* Drone 2 has joined the running simulation of mission 1 with a request that resolved
\* another waypoint list than the one the entry was created with.
C27_Witness ==
    /\ step.op = "startMerged" /\ step.missionId = 1 /\ step.droneId = 2
    /\ RequestWaypoints(1) = DetourPath
    /\ Sim(1) # NoSim /\ Sim(1).path = ToPath(ShortPath)
    /\ Sim(1).activeDrones = <<1, 2>>
    /\ \E t \in TimersOf(1) : t.fired = 3 /\ t.progress = 3 * ProgressStep
    /\ drones[2].lastKnownLocation = Location(20, 0)

\* C28: when every due interval fires and every handler resumes, a mission that has a
\* registry entry eventually has none and has status completed.
C28_EntriesEventuallyRemoved ==
    \A m \in MissionIds :
        (Sim(m) # NoSim) ~> (Sim(m) = NoSim /\ missions[m].status = "completed")

\* The simulation two drones took part in has been removed on the tick after its last
\* segment, leaving no timer behind.
C28_Witness ==
    /\ step.op = "tickCompleted" /\ step.missionId = 1
    /\ step.n = TicksPerSegment + 1
    /\ Sim(1) = NoSim /\ timers = {}
    /\ missions[1].status = "completed"
    /\ \A d \in DroneIds : drones[d].status = "available"
    /\ nextTimerId = 2

\* The drones the stored assignments of mission m put in-mission.
AssignedTo(m) == {getDroneAssignmentsByMission(m)[i].droneId : i \in DOMAIN getDroneAssignmentsByMission(m)}

SimulatedBy(d) == {m \in MissionIds : Sim(m) # NoSim /\ d \in Range(Sim(m).activeDrones)}

\* C30 (as stated): a drone is in the activeDrones of at most one registry entry.
C30_DroneInOneSimulation ==
    \A d \in DroneIds : Cardinality(SimulatedBy(d)) <= 1

\* The completing ticks of interval `id` among the suspended handlers `handlers`.
FinalTicks(handlers, id) == {t \in handlers : t.kind = "tick" /\ t.final /\ t.intervalId = id}

\* The interval handles a state holds, scheduled or kept by a suspended tick.
Handles(scheduled, handlers) ==
    {u.id : u \in scheduled} \cup {t.intervalId : t \in {r \in handlers : r.kind = "tick"}}

\* C31: for every interval, at most one completing tick is in flight; while it is, the
\* interval is not scheduled, so no further tick of it is dispatched; a completing tick
\* begins only from a scheduled interval; and an interval that is no longer scheduled is
\* never scheduled again (only a new handle is), so the completion with its release
\* writes and its mission write does not run a second time.
C31_CompletionRunsOnce ==
    [][\A id \in Handles(timers, tasks) \cup Handles(timers', tasks') :
           /\ Cardinality(FinalTicks(tasks', id)) <= 1
           /\ FinalTicks(tasks', id) # {} => id \notin {u.id : u \in timers'}
           /\ (FinalTicks(tasks, id) = {} /\ FinalTicks(tasks', id) # {}) => id \in {u.id : u \in timers}
           /\ (id \notin {u.id : u \in timers} /\ id \in {u.id : u \in timers'})
              => id = nextTimerId /\ nextTimerId' = id + 1]_vars

\* The completing tick is in flight together with an earlier tick of the same interval
\* that is still waiting for its storage call.
C31_Witness ==
    \E t \in tasks, u \in tasks :
        /\ t.kind = "tick" /\ t.final /\ t.pc = "getDrone"
        /\ u.kind = "tick" /\ ~u.final /\ u.intervalId = t.intervalId
        /\ u.n = TicksPerSegment - 1
        /\ timers = {}
        /\ Sim(t.missionId) # NoSim

\* C32: the handler of an accepted start request first stores the named drone at the first
\* waypoint of the request's waypoint list, in-mission for the mission, leaving the other
\* drones alone, and ends by publishing exactly one drone-location-update carrying that
\* record; no tick runs in between.
C32_StartPlacesDroneAtFirstWaypoint ==
    [][/\ step'.op = "startUpdateDrone"
          => LET d == step'.droneId
                 first == RequestWaypoints(step'.missionId)[1]
             IN /\ drones'[d] = [lastKnownLocation |-> Location(first.lat, first.lng),
                                 status |-> "in-mission", assignedMissionId |-> step'.missionId]
                /\ \A e \in DroneIds \ {d} : drones'[e] = drones[e]
       /\ step'.op \in {"startCreated", "startMerged"}
          => /\ step.op = "startGetUpdated"
             /\ published' = <<[type |-> "drone-location-update", id |-> step'.droneId,
                                drone |-> drones[step'.droneId]]>>
             /\ drones'[step'.droneId].lastKnownLocation = ToPath(RequestWaypoints(step'.missionId))[1]
             /\ drones'[step'.droneId].status = "in-mission"
             /\ drones'[step'.droneId].assignedMissionId = step'.missionId]_vars

\* Drone 2 has joined mission 1's simulation seven ticks along its path: it is stored
\* and published at the first waypoint while drone 1 is on its way.
C32_Witness ==
    /\ step.op = "startMerged" /\ step.missionId = 1 /\ step.droneId = 2
    /\ \E t \in TimersOf(1) : t.fired = 7
    /\ drones[1].lastKnownLocation = Location(0, 7)
    /\ drones[2] = [lastKnownLocation |-> Location(0, 0), status |-> "in-mission", assignedMissionId |-> 1]
    /\ Len(published) = 1 /\ published[1].id = 2 /\ published[1].drone = drones[2]

\* C33: the handler of a manual location update for a stored drone changes the drone's
\* lastKnownLocation to the location sent and nothing else (not its status or
\* assignedMissionId, no other drone, no mission, assignment, registry entry or timer), and
\* publishes exactly one drone-location-update, carrying the updated record.
C33_ManualUpdateOnlyMoves ==
    [][/\ step'.op = "updateGetDrone" => NoMutation
       /\ step'.op = "updateWrite"
          => /\ \E location \in ManualLocations :
                    drones' = [drones EXCEPT ![step'.droneId].lastKnownLocation = location]
             /\ UNCHANGED <<missions, droneAssignments, currentMissionId, simVars>>
             /\ published' = <<>>
       /\ step'.op = "updateBroadcast"
          => /\ step.op = "updateWrite"
             /\ UNCHANGED <<storeVars, simVars>>
             /\ published' = <<[type |-> "drone-location-update", id |-> step'.droneId,
                                drone |-> drones[step'.droneId]]>>]_vars

\* Drone 1 has been moved by hand during its simulation: it is still in-mission for
\* mission 1, drone 2 is where it was, and the one event published carries the record.
C33_Witness ==
    /\ step.op = "updateBroadcast" /\ step.droneId = 1
    /\ Sim(1) # NoSim /\ \E t \in TimersOf(1) : t.fired = 4
    /\ drones[1] = [lastKnownLocation |-> Location(40, 40), status |-> "in-mission", assignedMissionId |-> 1]
    /\ drones[2] = [lastKnownLocation |-> Location(0, 0), status |-> "available", assignedMissionId |-> None]
    /\ published = <<[type |-> "drone-location-update", id |-> 1, drone |-> drones[1]]>>

\* C34 (as stated): a start request for a stored drone and a mission that has a waypoint
\* list of its own with two or more waypoints, while its assignments give fewer than two,
\* is handled with at least two waypoints: the list its handler resolves (the first
\* assignment's, else the mission's as the handler holds it) has two or more.
C34_FallsBackToMissionWaypoints ==
    [][(/\ step'.op = "startGetMission"
        /\ getMission(missions, step'.missionId) # NoMission
        /\ getDrone(drones, step'.droneId) # NoDrone
        /\ "waypoints" \in DOMAIN missions[step'.missionId]
        /\ Len(missions[step'.missionId].waypoints) >= 2
        /\ Len(RequestWaypoints(step'.missionId)) < 2)
       => \E t \in tasks' \ tasks :
              Len(IF Len(getDroneAssignmentsByMission(t.missionId)) > 0
                  THEN getDroneAssignmentsByMission(t.missionId)[1].waypoints
                  ELSE t.missionWaypoints) >= 2]_vars

\* C35: a message that is not JSON, or whose type is neither drone-location-update nor
\* start-mission-simulation, writes nothing to storage, leaves the registry and the timers
\* alone and publishes nothing (so what it carries is never stored as a drone's location),
\* and it leaves its connection open with no handler pending, ready for the next message.
C35_UnhandledMessagesIgnored ==
    [][/\ step'.op \in {"messageRejected", "messageIgnored"}
          => /\ NoMutation
             /\ clients' = clients /\ clients'[step'.n].readyState = "OPEN"
             /\ tasks' = tasks /\ CanDispatch(1)
       /\ \A d \in DroneIds :
              getDrone(drones', d) # NoDrone => drones'[d].lastKnownLocation # UnhandledLocation]_vars

\* A viewer has sent a message of an unknown type while the simulation it watches is
\* three ticks along.
C35_Witness ==
    /\ step.op = "messageIgnored" /\ step.n = 2
    /\ clients[2].readyState = "OPEN" /\ clients[2].seen[1] = Location(0, 3)
    /\ Sim(1) # NoSim /\ \E t \in TimersOf(1) : t.fired = 3
    /\ drones[1].lastKnownLocation = Location(0, 3)
    /\ Idle

\* The reconnect timeouts pending for socket s, and the sockets its close handler created.
PendingFor(b, s) == Cardinality({i \in DOMAIN b.timeouts : b.timeouts[i] = s})
AttemptsFor(b, s) == Cardinality({u \in DOMAIN b.sockets : b.sockets[u].origin = s})

\* C36: the close event of a socket with code 1000 schedules nothing, with any other code
\* it schedules one reconnect timeout and creates no socket yet; at every moment a socket
\* closed with code 1000 (or not closed) has no reconnect pending or made, and a socket
\* closed with another code has exactly one, pending or made, whether a page or an earlier
\* reconnect created it.
C36_ReconnectUnlessNormalClosure ==
    [][\A s \in DOMAIN browser'.sockets :
           LET before == IF s \in DOMAIN browser.sockets THEN browser.sockets[s].readyState ELSE "none"
               after == browser'.sockets[s]
               closes == before \in {"CONNECTING", "OPEN"} /\ after.readyState = "CLOSED"
           IN /\ (closes /\ after.code = NormalClosure)
                 => browser'.timeouts = browser.timeouts /\ Len(browser'.sockets) = Len(browser.sockets)
              /\ (closes /\ after.code # NormalClosure)
                 => browser'.timeouts = Append(browser.timeouts, s)
                    /\ Len(browser'.sockets) = Len(browser.sockets)
              /\ PendingFor(browser', s) + AttemptsFor(browser', s) =
                     IF after.readyState = "CLOSED" /\ after.code # NormalClosure THEN 1 ELSE 0]_vars

\* The page's socket was lost, its reconnect was lost too, and the second reconnect was
\* closed normally: three sockets in a chain and no timeout left.
C36_Witness ==
    /\ Len(browser.sockets) = 3
    /\ browser.sockets[1] = [readyState |-> "CLOSED", code |-> 1006, origin |-> None]
    /\ browser.sockets[2] = [readyState |-> "CLOSED", code |-> 1006, origin |-> 1]
    /\ browser.sockets[3] = [readyState |-> "CLOSED", code |-> NormalClosure, origin |-> 2]
    /\ browser.timeouts = <<>>

====
